---- MODULE Spec2Model ----
(***************************************************************************)
(* Model of strava_sheets_sync.py: one run of main() as a state machine     *)
(* (Spec), and fetch_activities (SpecFetch, SpecFetchFair), parse_activity *)
(* (SpecParse), find_date_row and normalize_date (SpecDates) called on     *)
(* their own, on the same state.                                           *)
(*                                                                         *)
(* Text is modelled as a sequence of one-character strings, so that        *)
(* parsing (strptime, fromisoformat) and formatting (f-strings, strftime)  *)
(* are computed character by character and not assumed.                    *)
(*                                                                         *)
(* What the model takes from the environment:                              *)
(*  - the clock is read once, in ensure_strava_token, and is env.now;      *)
(*  - the activities endpoint serves env.server in pages of per_page, or   *)
(*    answers a request with an error status;                              *)
(*  - a store call that raises has had no effect on the worksheet;         *)
(*  - sheet_mapping gives the date and every written field a column of     *)
(*    its own.                                                             *)
(*  - strftime pads the year with zeros or not, as the platform has it     *)
(*    (env.year_padded).                                                   *)
(* Float arithmetic of parse_activity is modelled by exact integer         *)
(* arithmetic on distances in whole metres and times in whole seconds.     *)
(* The --auth branch of main() (strava_initial_auth) is not modelled.      *)
(***************************************************************************)
EXTENDS Integers, Sequences, FiniteSets, TLC

(***************************************************************************)
(* State                                                                   *)
(***************************************************************************)
VARIABLES
    pc,             \* where main() is: main, token, fetch, open, find, write,
                    \* done, exit (sys.exit(1)) or failed (uncaught exception)
    env,            \* what the run finds: the clock, the activities on the
                    \* server, the service account file, --dry-run, the config
                    \* as loaded and the worksheet as it is before the run; the
                    \* activity_type fetch_activities is called with; and
                    \* whether the platform's strftime pads the year
    config,         \* the config dict in memory
    disk,           \* config.json
    saves,          \* number of save_config calls
    access_token,   \* main's access_token
    page,           \* fetch_activities: page
    activities,     \* fetch_activities: activities, before the type filter
    fetched,        \* main's activities (what fetch_activities returned)
    parsed,         \* main's parsed
    idx,            \* update_sheet: position of act in activities_parsed
    row,            \* update_sheet: row
    updates,        \* update_sheet: updates
    skipped,        \* update_sheet: skipped
    sheet,          \* the worksheet in the store
    tokenCalls,     \* requests sent to the token endpoint, with the answer:
                    \* <<tokens>>, or <<>> for an error status
    pageRequests,   \* page numbers requested from the activities endpoint
    storeCalls,     \* calls made to the store
    applied,        \* positions of the records whose batch write was applied
    written,        \* the batches of cells the store has applied, in order
    normalized,     \* find_date_row: the values normalize_date returned for the
                    \* cells scanned by the latest call, in row order
    error           \* what ended the run early

(***************************************************************************)
(* Text helpers                                                            *)
(***************************************************************************)
Digits == <<"0", "1", "2", "3", "4", "5", "6", "7", "8", "9">>

IsDigit(c) == \E i \in 1..10 : Digits[i] = c

DigitVal(c) == (CHOOSE i \in 1..10 : Digits[i] = c) - 1

AllDigits(s) == \A i \in 1..Len(s) : IsDigit(s[i])

RECURSIVE ToInt(_)
\* int() of a non-empty string of decimal digits
ToInt(s) ==
    IF Len(s) = 0 THEN 0
    ELSE 10 * ToInt(SubSeq(s, 1, Len(s) - 1)) + DigitVal(s[Len(s)])

RECURSIVE IntToChars(_)
\* "{n}" / "{n:d}" of a non-negative integer
IntToChars(n) ==
    IF n < 10 THEN <<Digits[n + 1]>>
    ELSE IntToChars(n \div 10) \o <<Digits[(n % 10) + 1]>>

RECURSIVE ZeroPad(_, _)
\* left-pads with "0" up to width w; longer text is left alone
ZeroPad(s, w) == IF Len(s) >= w THEN s ELSE ZeroPad(<<"0">> \o s, w)

\* "{n:02d}"
Pad2(n) == ZeroPad(IntToChars(n), 2)

IsSpace(c) == c = " "

RECURSIVE LStrip(_)
LStrip(s) == IF Len(s) > 0 /\ IsSpace(s[1]) THEN LStrip(Tail(s)) ELSE s

RECURSIVE RStrip(_)
RStrip(s) ==
    IF Len(s) > 0 /\ IsSpace(s[Len(s)]) THEN RStrip(SubSeq(s, 1, Len(s) - 1)) ELSE s

\* str.strip()
Strip(s) == RStrip(LStrip(s))

RECURSIVE Split(_, _)
\* str.split(sep) for a one-character separator
Split(s, sep) ==
    IF \A i \in 1..Len(s) : s[i] # sep THEN <<s>>
    ELSE LET k == CHOOSE i \in 1..Len(s) : s[i] = sep /\ \A j \in 1..(i - 1) : s[j] # sep
         IN  <<SubSeq(s, 1, k - 1)>> \o Split(SubSeq(s, k + 1, Len(s)), sep)

\* rank of a character in code-point order, for the characters of a date
CharRank(c) == IF c = "-" THEN 0 ELSE 1 + DigitVal(c)

RECURSIVE StrLess(_, _)
\* a < b on str (lexicographic)
StrLess(a, b) ==
    IF Len(b) = 0 THEN FALSE
    ELSE IF Len(a) = 0 THEN TRUE
    ELSE IF a[1] # b[1] THEN CharRank(a[1]) < CharRank(b[1])
    ELSE StrLess(Tail(a), Tail(b))

(***************************************************************************)
(* Calendar                                                                *)
(***************************************************************************)
IsLeap(y) == (y % 4 = 0 /\ y % 100 # 0) \/ y % 400 = 0

DaysInMonth(y, m) ==
    IF m = 2 THEN (IF IsLeap(y) THEN 29 ELSE 28)
    ELSE IF m \in {4, 6, 9, 11} THEN 30 ELSE 31

\* datetime(y, m, d) is constructible (otherwise strptime raises ValueError)
ValidDate(y, m, d) ==
    /\ y >= 1 /\ y <= 9999
    /\ m >= 1 /\ m <= 12
    /\ d >= 1 /\ d <= DaysInMonth(y, m)

\* %Y of strftime is the C library's: glibc prints the year as it is, other
\* libraries (and later Python versions) pad it with zeros to four digits
YearText(y) == IF env.year_padded THEN ZeroPad(IntToChars(y), 4) ELSE IntToChars(y)

\* dt.strftime("%Y-%m-%d")
Strftime(y, m, d) ==
    YearText(y) \o <<"-">> \o Pad2(m) \o <<"-">> \o Pad2(d)

(***************************************************************************)
(* parse_activity                                                          *)
(***************************************************************************)
\* distance = distance_m / 1609.344 (miles) or distance_m / 1000.0 (km), kept
\* as the exact fraction DistNum / DistDen (1609.344 = 201168 / 125)
DistNum(distance_m, units) ==
    IF units = "miles" THEN distance_m * 125 ELSE distance_m

DistDen(units) == IF units = "miles" THEN 201168 ELSE 1000

RECURSIVE MulDivMod(_, _, _)
\* <<(a * b) \div c, (a * b) % c>>, computed without forming a * b
MulDivMod(a, b, c) ==
    IF b = 0 THEN <<0, 0>>
    ELSE LET h  == MulDivMod(a, b \div 2, c)
             r2 == 2 * h[2] + (IF b % 2 = 1 THEN a % c ELSE 0)
             q2 == 2 * h[1] + (IF b % 2 = 1 THEN a \div c ELSE 0)
         IN  <<q2 + (r2 \div c), r2 % c>>

\* round(n / d, 2) in hundredths; an exact tie goes to the even neighbour
RoundHundredths(n, d) ==
    LET qr == MulDivMod(n, 100, d)
        q  == qr[1]
        r  == qr[2]
    IN  IF 2 * r > d THEN q + 1
        ELSE IF 2 * r < d THEN q
        ELSE IF q % 2 = 0 THEN q ELSE q + 1

\* int(pace_total_seconds // 60) with pace_total_seconds = moving_time_s / distance
pace_min(distance_m, moving_time_s, units) ==
    MulDivMod(moving_time_s, DistDen(units), 60 * DistNum(distance_m, units))[1]

\* as pace_sec, without the reduction modulo 60
pace_sec_unreduced(distance_m, moving_time_s, units) ==
    MulDivMod(moving_time_s, DistDen(units), DistNum(distance_m, units))[1]

\* int(pace_total_seconds % 60)
pace_sec(distance_m, moving_time_s, units) ==
    MulDivMod(moving_time_s, DistDen(units), DistNum(distance_m, units))[1] % 60

NA == <<"N", "/", "A">>

pace_str(distance_m, moving_time_s, units) ==
    IF DistNum(distance_m, units) > 0
    THEN IntToChars(pace_min(distance_m, moving_time_s, units)) \o <<":">>
            \o Pad2(pace_sec(distance_m, moving_time_s, units))
    ELSE NA

\* as duration_str, with the hour segment only above one hour: the test is
\* moving_time_s > 3600
duration_str_late_hour(moving_time_s) ==
    IF moving_time_s > 3600
    THEN IntToChars(moving_time_s \div 3600) \o <<":">>
            \o Pad2((moving_time_s % 3600) \div 60) \o <<":">> \o Pad2(moving_time_s % 60)
    ELSE IntToChars((moving_time_s % 3600) \div 60) \o <<":">> \o Pad2(moving_time_s % 60)

duration_str(moving_time_s) ==
    LET hours == moving_time_s \div 3600
        mins  == (moving_time_s % 3600) \div 60
        secs  == moving_time_s % 60
    IN  IF hours # 0
        THEN IntToChars(hours) \o <<":">> \o Pad2(mins) \o <<":">> \o Pad2(secs)
        ELSE IntToChars(mins) \o <<":">> \o Pad2(secs)

\* datetime.fromisoformat(start_local.replace("Z", "+00:00")).strftime("%Y-%m-%d")
\* for a timestamp of the form YYYY-MM-DDTHH:MM:SSZ
date_str(start_local) ==
    Strftime(ToInt(SubSeq(start_local, 1, 4)),
             ToInt(SubSeq(start_local, 6, 7)),
             ToInt(SubSeq(start_local, 9, 10)))

\* the record returned by parse_activity; "distance" is in hundredths of a unit
parse_activity(activity, units) ==
    [ date     |-> date_str(activity.start_date_local),
      distance |-> RoundHundredths(DistNum(activity.distance, units), DistDen(units)),
      pace     |-> pace_str(activity.distance, activity.moving_time, units),
      duration |-> duration_str(activity.moving_time),
      name     |-> activity.name ]

(***************************************************************************)
(* normalize_date                                                          *)
(***************************************************************************)
UpperAlpha == <<"A", "B", "C", "D", "E", "F", "G", "H", "I", "J", "K", "L", "M",
                "N", "O", "P", "Q", "R", "S", "T", "U", "V", "W", "X", "Y", "Z">>

LowerAlpha == <<"a", "b", "c", "d", "e", "f", "g", "h", "i", "j", "k", "l", "m",
                "n", "o", "p", "q", "r", "s", "t", "u", "v", "w", "x", "y", "z">>

LowerChar(c) ==
    IF \E i \in 1..26 : UpperAlpha[i] = c
    THEN LowerAlpha[CHOOSE i \in 1..26 : UpperAlpha[i] = c]
    ELSE c

\* str.lower()
Lower(s) == [i \in 1..Len(s) |-> LowerChar(s[i])]

\* the month names of %B, lower-cased (strptime matches them ignoring case)
MonthNames ==
    << <<"j","a","n","u","a","r","y">>, <<"f","e","b","r","u","a","r","y">>,
       <<"m","a","r","c","h">>, <<"a","p","r","i","l">>, <<"m","a","y">>,
       <<"j","u","n","e">>, <<"j","u","l","y">>, <<"a","u","g","u","s","t">>,
       <<"s","e","p","t","e","m","b","e","r">>, <<"o","c","t","o","b","e","r">>,
       <<"n","o","v","e","m","b","e","r">>, <<"d","e","c","e","m","b","e","r">> >>

\* the month names of %b are the first three letters of those of %B
MonthAbbr == [i \in 1..12 |-> SubSeq(MonthNames[i], 1, 3)]

\* %Y : \d\d\d\d
FieldY(f) == Len(f) = 4 /\ AllDigits(f)

\* %y : \d\d
Fieldy(f) == Len(f) = 2 /\ AllDigits(f)

\* %m : 1[0-2]|0[1-9]|[1-9]
Fieldm(f) == Len(f) \in {1, 2} /\ AllDigits(f) /\ ToInt(f) \in 1..12

\* %d : 3[01]|[12]\d|0[1-9]|[1-9]| [1-9]
Fieldd(f) ==
    \/ Len(f) \in {1, 2} /\ AllDigits(f) /\ ToInt(f) \in 1..31
    \/ Len(f) = 2 /\ f[1] = " " /\ IsDigit(f[2]) /\ f[2] # "0"

\* the century rule of %y
Year2(f) == IF ToInt(f) <= 68 THEN 2000 + ToInt(f) ELSE 1900 + ToInt(f)

\* the date a parse yields, or <<>> where strptime raises ValueError
DateOrError(y, m, d) == IF ValidDate(y, m, d) THEN <<y, m, d>> ELSE <<>>

\* the date of a year field, a month field and a day field
FieldsToDate(fy, fm, fd, twoDigitYear) ==
    IF /\ (IF twoDigitYear THEN Fieldy(fy) ELSE FieldY(fy))
       /\ Fieldm(fm)
       /\ Fieldd(fd)
    THEN DateOrError(IF twoDigitYear THEN Year2(fy) ELSE ToInt(fy),
                     ToInt(fm), ToInt(LStrip(fd)))
    ELSE <<>>

\* order gives the positions of year, month and day among the fields f
OrderedFields(f, order, twoDigitYear) ==
    IF Len(f) # 3 THEN <<>>
    ELSE FieldsToDate(f[order[1]], f[order[2]], f[order[3]], twoDigitYear)

\* strptime for the formats made of three fields and one separator
ParseFields(s, sep, order, twoDigitYear) ==
    OrderedFields(Split(s, sep), order, twoDigitYear)

\* the index of the month name, 0 if it is none of the names
MonthIndex(name, names) ==
    IF \E i \in 1..12 : names[i] = name
    THEN CHOOSE i \in 1..12 : names[i] = name
    ELSE 0

\* the date of a month index, a day field and a year field
NamedToDate(month, day, year) ==
    IF month # 0 /\ AllDigits(day) /\ Fieldd(day)
    THEN DateOrError(ToInt(year), month, ToInt(day))
    ELSE <<>>

\* left is "name \s+ day": the name ends at position k, the first white space
NameAndDay(left, k, year, names) ==
    NamedToDate(MonthIndex(Lower(SubSeq(left, 1, k - 1)), names),
                LStrip(SubSeq(left, k + 1, Len(left))),
                year)

\* left is what precedes the comma, year what follows it without the
\* white space, gap the length of that white space
LeftAndYear(left, year, gap, names) ==
    IF gap = 0 \/ ~FieldY(year) \/ (\A i \in 1..Len(left) : ~IsSpace(left[i]))
    THEN <<>>
    ELSE NameAndDay(left,
                    CHOOSE i \in 1..Len(left) :
                        IsSpace(left[i]) /\ \A j \in 1..(i - 1) : ~IsSpace(left[j]),
                    year, names)

AroundComma(parts, names) ==
    IF Len(parts) # 2 THEN <<>>
    ELSE LeftAndYear(parts[1], LStrip(parts[2]),
                     Len(parts[2]) - Len(LStrip(parts[2])), names)

\* strptime for "%B %d, %Y" and "%b %d, %Y": name \s+ day , \s+ year
ParseMonthName(s, names) == AroundComma(Split(s, ","), names)

NumFormats == 6

\* as Strptime, with the day-first slash format tried before the month-first
\* ones
Strptime_day_first(s, k) ==
    CASE k = 1 -> ParseFields(s, "-", <<1, 2, 3>>, FALSE)   \* %Y-%m-%d
      [] k = 2 -> ParseFields(s, "/", <<3, 2, 1>>, FALSE)   \* %d/%m/%Y
      [] k = 3 -> ParseFields(s, "/", <<3, 1, 2>>, FALSE)   \* %m/%d/%Y
      [] k = 4 -> ParseFields(s, "/", <<3, 1, 2>>, TRUE)    \* %m/%d/%y
      [] k = 5 -> ParseMonthName(s, MonthNames)             \* %B %d, %Y
      [] k = 6 -> ParseMonthName(s, MonthAbbr)              \* %b %d, %Y

\* datetime.strptime(s, fmt) for the k-th format of normalize_date's tuple
Strptime(s, k) ==
    CASE k = 1 -> ParseFields(s, "-", <<1, 2, 3>>, FALSE)   \* %Y-%m-%d
      [] k = 2 -> ParseFields(s, "/", <<3, 1, 2>>, FALSE)   \* %m/%d/%Y
      [] k = 3 -> ParseFields(s, "/", <<3, 1, 2>>, TRUE)    \* %m/%d/%y
      [] k = 4 -> ParseFields(s, "/", <<3, 2, 1>>, FALSE)   \* %d/%m/%Y
      [] k = 5 -> ParseMonthName(s, MonthNames)             \* %B %d, %Y
      [] k = 6 -> ParseMonthName(s, MonthAbbr)              \* %b %d, %Y

\* None is <<>>, a returned string s is <<s>>
None == <<>>

RECURSIVE FirstParse(_, _)
\* the try of the k-th format: dt is what strptime gave, <<>> for ValueError
TryResult(s, k, dt) == IF dt # <<>> THEN dt ELSE FirstParse(s, k + 1)

\* the for loop over the formats, from the k-th on: the first date that parses,
\* or <<>> when every strptime raised
FirstParse(s, k) ==
    IF k > NumFormats THEN <<>> ELSE TryResult(s, k, Strptime(s, k))

\* what normalize_date returns for the stripped text s, dt being the first
\* date that parsed, if any
Normalized(s, dt) == IF dt # <<>> THEN <<Strftime(dt[1], dt[2], dt[3])>> ELSE <<s>>

normalize_date(val) ==
    IF Len(val) = 0 THEN None
    ELSE Normalized(Strip(val), FirstParse(Strip(val), 1))

(***************************************************************************)
(* find_date_row, and the pieces of fetch_activities and main that are     *)
(* pure                                                                    *)
(***************************************************************************)
\* a sheet cell holds text, <<"str", characters>>, or a number,
\* <<"num", hundredths>>
Str(s) == <<"str", s>>

Num(h) == <<"num", h>>

\* the text col_values reports for a cell
CellText(cell) ==
    IF cell[1] = "num"
    THEN IntToChars(cell[2] \div 100) \o <<".">> \o Pad2(cell[2] % 100)
    ELSE cell[2]

\* worksheet.col_values(col)
col_values(ws, col) == [r \in 1..Len(ws) |-> CellText(ws[r][col])]

\* the values normalize_date returns for the cells of a column, in row order
NormalizeAll(date_values) ==
    [i \in 1..Len(date_values) |-> normalize_date(date_values[i])]

\* the last position of nv that holds the date, 0 if there is none
LastRowOf(nv, date) ==
    IF \E i \in 1..Len(nv) : nv[i] = <<date>>
    THEN CHOOSE i \in 1..Len(nv) :
            nv[i] = <<date>> /\ \A j \in (i + 1)..Len(nv) : nv[j] # <<date>>
    ELSE 0

\* the first position of nv that holds the date, 0 if there is none
FirstRowOf(nv, date) ==
    IF \E i \in 1..Len(nv) : nv[i] = <<date>>
    THEN CHOOSE i \in 1..Len(nv) :
            nv[i] = <<date>> /\ \A j \in 1..(i - 1) : nv[j] # <<date>>
    ELSE 0

\* as find_date_row, returning the last matching row instead of the first
find_date_row_last(date_values, date) ==
    LastRowOf(NormalizeAll(date_values), date)

\* as find_date_row, with the scan ended by the first empty cell
find_date_row_stops_at_empty(date_values, date) ==
    FirstRowOf(SubSeq(NormalizeAll(date_values), 1,
                      IF \E i \in 1..Len(date_values) : Len(date_values[i]) = 0
                      THEN (CHOOSE i \in 1..Len(date_values) :
                                /\ Len(date_values[i]) = 0
                                /\ \A j \in 1..(i - 1) : Len(date_values[j]) # 0) - 1
                      ELSE Len(date_values)),
               date)

\* the row find_date_row returns; 0 stands for None
find_date_row(date_values, date) ==
    FirstRowOf(NormalizeAll(date_values), date)

\* the values find_date_row has normalized when it returns row r: those of the
\* rows up to r, or of all rows when it returns None
Scanned(date_values, r) ==
    IF r = 0 THEN NormalizeAll(date_values)
    ELSE SubSeq(NormalizeAll(date_values), 1, r)

per_page == 50

\* the answer of the activities endpoint to a request for page p
PageOf(all, p) ==
    SubSeq(all, (p - 1) * per_page + 1,
           IF p * per_page < Len(all) THEN p * per_page ELSE Len(all))

\* as FilterType, with the test "if activity_type" left out: an empty filter
\* keeps the activities whose type is the empty string
FilterTypeAlways(acts, activity_type) ==
    SelectSeq(acts, LAMBDA a : a.type = activity_type)

\* [a for a in activities if a.get("type") == activity_type], when activity_type
FilterType(acts, activity_type) ==
    IF activity_type # ""
    THEN SelectSeq(acts, LAMBDA a : a.type = activity_type)
    ELSE acts

RECURSIVE InsertByDate(_, _)
\* puts x behind every element whose date is not greater than x's
InsertByDate(sorted, x) ==
    IF Len(sorted) = 0 THEN <<x>>
    ELSE IF StrLess(x.date, sorted[Len(sorted)].date)
         THEN Append(InsertByDate(SubSeq(sorted, 1, Len(sorted) - 1), x),
                     sorted[Len(sorted)])
         ELSE Append(sorted, x)

RECURSIVE SortByDate(_)
\* parsed.sort(key=lambda x: x["date"]), a stable sort
SortByDate(recs) ==
    IF Len(recs) = 0 THEN <<>>
    ELSE InsertByDate(SortByDate(SubSeq(recs, 1, Len(recs) - 1)), recs[Len(recs)])

\* [parse_activity(a, units=units) for a in activities]
ParseAll(acts, units) == [i \in 1..Len(acts) |-> parse_activity(acts[i], units)]

\* as cells_to_update, with the date cell of the row rewritten in canonical form
cells_to_update_with_date(mapping, r, act) ==
    << <<r, mapping.date_column, Str(act.date)>>,
       <<r, mapping.distance_column, Num(act.distance)>>,
       <<r, mapping.pace_column, Str(act.pace)>> >>
    \o (IF mapping.duration_column # 0
        THEN << <<r, mapping.duration_column, Str(act.duration)>> >> ELSE <<>>)
    \o (IF mapping.notes_column # 0 /\ Len(act.name) > 0
        THEN << <<r, mapping.notes_column, Str(act.name)>> >> ELSE <<>>)

\* cells_to_update of update_sheet, as <<row, column, value>> triples
cells_to_update(mapping, r, act) ==
    << <<r, mapping.distance_column, Num(act.distance)>>,
       <<r, mapping.pace_column, Str(act.pace)>> >>
    \o (IF mapping.duration_column # 0
        THEN << <<r, mapping.duration_column, Str(act.duration)>> >> ELSE <<>>)
    \o (IF mapping.notes_column # 0 /\ Len(act.name) > 0
        THEN << <<r, mapping.notes_column, Str(act.name)>> >> ELSE <<>>)

RECURSIVE update_cells(_, _)
\* worksheet.update_cells(cells)
update_cells(ws, cells) ==
    IF Len(cells) = 0 THEN ws
    ELSE update_cells([ws EXCEPT ![cells[1][1]][cells[1][2]] = cells[1][3]], Tail(cells))

(***************************************************************************)
(* Inputs of a run                                                         *)
(***************************************************************************)
T15am == <<"2", "0", "2", "4", "-", "0", "3", "-", "1", "5", "T", "0", "7", ":", "0", "0", ":", "0", "0", "Z">>

T15pm == <<"2", "0", "2", "4", "-", "0", "3", "-", "1", "5", "T", "1", "8", ":", "3", "0", ":", "0", "0", "Z">>

T16am == <<"2", "0", "2", "4", "-", "0", "3", "-", "1", "6", "T", "0", "6", ":", "4", "5", ":", "1", "0", "Z">>

D15 == <<"2", "0", "2", "4", "-", "0", "3", "-", "1", "5">>

D16 == <<"2", "0", "2", "4", "-", "0", "3", "-", "1", "6">>

CellIso15 == <<"2", "0", "2", "4", "-", "0", "3", "-", "1", "5">>

CellSlash15 == <<"3", "/", "1", "5", "/", "2", "0", "2", "4">>

CellLong16 == <<"M", "a", "r", "c", "h", " ", "1", "6", ",", " ", "2", "0", "2", "4">>

CellHeader == <<"D", "a", "t", "e">>

CellEmpty == <<>>

NameAM == <<"A", "M">>

NamePM == <<"P", "M">>

NameRide == <<"R", "i", "d", "e">>

OldText == <<"o", "l", "d">>

CellPadded == <<" ", "n", "/", "a", " ">>

CellBlank == <<" ">>

\* raw activities as the activities endpoint returns them
RunMorning ==
    [type |-> "Run", start_date_local |-> T15am, distance |-> 10000,
     moving_time |-> 3000, name |-> NameAM]

RunEveningUnnamed ==
    [type |-> "Run", start_date_local |-> T15pm, distance |-> 5000,
     moving_time |-> 1500, name |-> <<>>]

RunStanding ==
    [type |-> "Run", start_date_local |-> T16am, distance |-> 0,
     moving_time |-> 4000, name |-> NamePM]

RideNoon ==
    [type |-> "Ride", start_date_local |-> T15pm, distance |-> 20000,
     moving_time |-> 3600, name |-> NameRide]

RawActivities == {RunMorning, RunEveningUnnamed, RunStanding, RideNoon}

CellValues == {CellEmpty, CellHeader, CellIso15, CellSlash15, CellLong16}

\* bounds of the model
MaxActs == 2

MaxRows == 2

MaxFullPages == 2

NumCols == 5

SeqsUpTo(S, n) == UNION {[1..k -> S] : k \in 0..n}

\* a long activity list: runs at both ends of every page, rides between
LongList(n) ==
    [i \in 1..n |-> IF i % per_page = 1 THEN RunMorning
                    ELSE IF i % per_page = 0 THEN RunStanding
                    ELSE RideNoon]

ShortLists == SeqsUpTo(RawActivities, MaxActs)

\* the short lists that hold runs only
RunLists == SeqsUpTo({a \in RawActivities : a.type = "Run"}, MaxActs)

LongLists ==
    {LongList(k * per_page + r) : k \in 1..MaxFullPages, r \in {0, 1, per_page - 1}}

DateColumns == SeqsUpTo(CellValues, MaxRows)

\* sheet_mapping; 0 stands for an absent (None) optional column
Mappings ==
    { [date_column |-> 1, distance_column |-> 2, pace_column |-> 3,
       duration_column |-> 4, notes_column |-> 5],
      [date_column |-> 1, distance_column |-> 2, pace_column |-> 3,
       duration_column |-> 0, notes_column |-> 0],
      [date_column |-> 2, distance_column |-> 1, pace_column |-> 4,
       duration_column |-> 0, notes_column |-> 3] }

DefaultMapping ==
    [date_column |-> 1, distance_column |-> 2, pace_column |-> 3,
     duration_column |-> 4, notes_column |-> 5]

Units == {"miles", "km"}

Clock == {1000, 5000}

\* token_expires_at - now at the start of a run, and in a token response
ExpiryOffsets == {30, 60, 61, 3600}

\* the worksheet whose date column holds the given cells
SheetOf(dates, mapping) ==
    [r \in 1..Len(dates) |->
        [c \in 1..NumCols |->
            IF c = mapping.date_column THEN Str(dates[r]) ELSE Str(OldText)]]

vars == <<pc, env, config, disk, saves, access_token, page, activities, fetched,
          parsed, idx, row, updates, skipped, sheet, tokenCalls, pageRequests,
          storeCalls, applied, written, normalized, error>>

NoToken == ""

InitConfig(now, offset, refresh_token, units, mapping) ==
    [strava |-> [access_token |-> "A0",
                 refresh_token |-> refresh_token,
                 token_expires_at |-> IF offset = 0 THEN 0 ELSE now + offset],
     units |-> units,
     sheet_mapping |-> mapping]

DefaultServer == <<RunMorning, RunEveningUnnamed>>

DefaultDates == <<CellHeader, CellIso15>>

DuplicateDates == <<CellSlash15, CellIso15, CellLong16>>

\* date columns with cells that hold no date before, between and after dates
UnreadableColumns ==
    { <<CellPadded, CellEmpty, CellIso15>>,
      <<CellBlank, CellLong16, CellPadded, CellSlash15>>,
      <<CellHeader, CellBlank, CellEmpty>> }

\* the inputs vary one group at a time around a default run
DefaultInput ==
    [now : {1000}, offset : {3600}, refresh_token : {"R0"}, sa_exists : {TRUE},
     dry_run : {FALSE}, units : {"miles"}, mapping : {DefaultMapping},
     server : {DefaultServer}, dates : {DefaultDates}, year_padded : {FALSE}]

Vary(field, values) ==
    {[in EXCEPT ![field] = v] : in \in DefaultInput, v \in values}

Inputs ==
    \* the credential and the clock
    {[in EXCEPT !.now = n, !.offset = o] :
        in \in DefaultInput, n \in Clock, o \in ExpiryOffsets \cup {0}}
    \* the preflight checks and --dry-run
    \cup Vary("refresh_token", {""})
    \cup Vary("sa_exists", {FALSE})
    \cup Vary("dry_run", {TRUE})
    \* the platform
    \cup Vary("year_padded", {TRUE})
    \* the activities and the date column
    \cup {[in EXCEPT !.server = s, !.dates = d] :
            in \in DefaultInput, s \in RunLists, d \in DateColumns}
    \* the activity types, the mapping and the units
    \cup {[in EXCEPT !.server = s, !.dates = DuplicateDates, !.mapping = m, !.units = u] :
            in \in DefaultInput, s \in ShortLists, m \in Mappings, u \in Units}
    \* several pages of activities
    \cup Vary("server", LongLists)
    \* cells that hold no date
    \cup {[in EXCEPT !.server = s, !.dates = d] :
            in \in DefaultInput,
            s \in {DefaultServer, <<RunStanding, RunMorning>>},
            d \in UnreadableColumns}

Init ==
    \E in \in Inputs :
        /\ config = InitConfig(in.now, in.offset, in.refresh_token, in.units, in.mapping)
        /\ env = [now |-> in.now, server |-> in.server, sa_exists |-> in.sa_exists,
                  dry_run |-> in.dry_run, loaded |-> config,
                  sheet |-> SheetOf(in.dates, in.mapping),
                  activity_type |-> "Run", year_padded |-> in.year_padded]
        /\ sheet = env.sheet
        /\ disk = config
        /\ pc = "main"
        /\ saves = 0
        /\ access_token = NoToken
        /\ page = 0
        /\ activities = <<>>
        /\ fetched = <<>>
        /\ parsed = <<>>
        /\ idx = 0
        /\ row = 0
        /\ updates = 0
        /\ skipped = <<>>
        /\ tokenCalls = <<>>
        /\ pageRequests = <<>>
        /\ storeCalls = <<>>
        /\ applied = <<>>
        /\ written = <<>>
        /\ normalized = <<>>
        /\ error = ""

(***************************************************************************)
(* main(), up to the call of ensure_strava_token                           *)
(***************************************************************************)
Preflight ==
    /\ pc = "main"
    /\ IF config.strava.refresh_token = ""
       THEN pc' = "exit" /\ error' = "no tokens"
       ELSE IF ~env.sa_exists
       THEN pc' = "exit" /\ error' = "no service account file"
       ELSE pc' = "token" /\ error' = error
    /\ UNCHANGED <<env, config, disk, saves, access_token, page, activities, fetched,
                   parsed, idx, row, updates, skipped, sheet, tokenCalls, pageRequests,
                   storeCalls, applied, written, normalized>>

(***************************************************************************)
(* ensure_strava_token                                                     *)
(***************************************************************************)
\* as TokenFresh, without the boundary: time.time() <= expires_at - 60
TokenFreshInclusive(cfg, now) == now <= cfg.strava.token_expires_at - 60

\* time.time() < expires_at - 60
TokenFresh(cfg, now) == now < cfg.strava.token_expires_at - 60

\* as StoreTokens, keeping the old refresh token
StoreTokensKeepRefresh(cfg, tokens) ==
    [cfg EXCEPT !.strava.access_token = tokens.access_token,
                !.strava.token_expires_at = tokens.expires_at]

\* the three assignments from the token response
StoreTokens(cfg, tokens) ==
    [cfg EXCEPT !.strava.access_token = tokens.access_token,
                !.strava.refresh_token = tokens.refresh_token,
                !.strava.token_expires_at = tokens.expires_at]

\* the bodies a successful token response can carry
TokenResponses ==
    [access_token : {"A1"}, refresh_token : {"R1"},
     expires_at : {env.now + o : o \in ExpiryOffsets}]

\* the fast path: the cached token is returned
TokenCached ==
    /\ pc = "token"
    /\ TokenFresh(config, env.now)
    /\ access_token' = config.strava.access_token
    /\ pc' = "fetch"
    /\ page' = 1
    /\ UNCHANGED <<env, config, disk, saves, activities, fetched, parsed, idx, row,
                   updates, skipped, sheet, tokenCalls, pageRequests, storeCalls,
                   applied, written, normalized, error>>

\* json.dump(config, f): what save_config leaves in config.json
save_config(cfg) == cfg

\* the refresh request is answered with tokens
TokenRefreshed ==
    /\ pc = "token"
    /\ ~TokenFresh(config, env.now)
    /\ \E tokens \in TokenResponses :
        /\ tokenCalls' = Append(tokenCalls,
                                [refresh_token |-> config.strava.refresh_token,
                                 response |-> <<tokens>>])
        /\ config' = StoreTokens(config, tokens)
        /\ disk' = save_config(config')
        /\ access_token' = tokens.access_token
    /\ saves' = saves + 1
    /\ pc' = "fetch"
    /\ page' = 1
    /\ UNCHANGED <<env, activities, fetched, parsed, idx, row, updates, skipped, sheet,
                   pageRequests, storeCalls, applied, written, normalized, error>>

\* as TokenRefreshFails, with the error swallowed: the run goes on with the
\* cached token
TokenRefreshFailsGoesOn ==
    /\ pc = "token"
    /\ ~TokenFresh(config, env.now)
    /\ tokenCalls' = Append(tokenCalls,
                            [refresh_token |-> config.strava.refresh_token,
                             response |-> <<>>])
    /\ access_token' = config.strava.access_token
    /\ pc' = "fetch"
    /\ page' = 1
    /\ error' = "token endpoint"
    /\ UNCHANGED <<env, config, disk, saves, activities, fetched, parsed, idx, row,
                   updates, skipped, sheet, pageRequests, storeCalls, applied, written,
                   normalized>>

\* the refresh request is answered with an error status: raise_for_status raises
TokenRefreshFails ==
    /\ pc = "token"
    /\ ~TokenFresh(config, env.now)
    /\ tokenCalls' = Append(tokenCalls,
                            [refresh_token |-> config.strava.refresh_token,
                             response |-> <<>>])
    /\ pc' = "failed"
    /\ error' = "token endpoint"
    /\ UNCHANGED <<env, config, disk, saves, access_token, page, activities, fetched,
                   parsed, idx, row, updates, skipped, sheet, pageRequests, storeCalls,
                   applied, written, normalized>>

(***************************************************************************)
(* fetch_activities, and main() up to the call of update_sheet             *)
(***************************************************************************)
\* as LastBatch, with the comparison off by one: len(batch) <= per_page
LastBatchInclusive(batch) == Len(batch) = 0 \/ Len(batch) <= per_page

\* as LastBatch, with the break taken after every batch
LastBatchAlways(batch) == TRUE

\* the loop leaves after this batch: "not batch" or len(batch) < per_page
LastBatch(batch) == Len(batch) = 0 \/ Len(batch) < per_page

\* a full page: the loop goes on to the next page
FetchPage ==
    /\ pc = "fetch"
    /\ LET batch == PageOf(env.server, page)
       IN  /\ ~LastBatch(batch)
           /\ activities' = activities \o batch
    /\ pageRequests' = Append(pageRequests, page)
    /\ page' = page + 1
    /\ UNCHANGED <<pc, env, config, disk, saves, access_token, fetched, parsed, idx,
                   row, updates, skipped, sheet, tokenCalls, storeCalls, applied,
                   written, normalized, error>>

\* as NoActivities, with the empty result not noticed: main() goes on
NoActivitiesIgnored(result) == FALSE

\* main(): "if not activities", the early return on an empty result
NoActivities(result) == Len(result) = 0

\* the last page: the loop ends, the type filter is applied, and main() parses
\* and sorts what came back
FetchLastPage ==
    /\ pc = "fetch"
    /\ LET batch  == PageOf(env.server, page)
           all    == activities \o batch
           result == FilterType(all, env.activity_type)
       IN  /\ LastBatch(batch)
           /\ activities' = all
           /\ fetched' = result
           /\ IF NoActivities(result)
              THEN pc' = "done" /\ parsed' = parsed
              ELSE /\ parsed' = SortByDate(ParseAll(result, config.units))
                   /\ pc' = IF env.dry_run THEN "done" ELSE "open"
    /\ pageRequests' = Append(pageRequests, page)
    /\ UNCHANGED <<env, config, disk, saves, access_token, page, idx, row, updates,
                   skipped, sheet, tokenCalls, storeCalls, applied, written, normalized,
                   error>>

\* as FetchFails, with the error taken as the end of the list: what the earlier
\* pages brought is filtered and returned
FetchFailsKeepsPartial ==
    /\ pc = "fetch"
    /\ pageRequests' = Append(pageRequests, page)
    /\ error' = "activities endpoint"
    /\ LET result == FilterType(activities, env.activity_type)
       IN  /\ fetched' = result
           /\ IF Len(result) = 0
              THEN pc' = "done" /\ parsed' = parsed
              ELSE /\ parsed' = SortByDate(ParseAll(result, config.units))
                   /\ pc' = IF env.dry_run THEN "done" ELSE "open"
    /\ UNCHANGED <<env, config, disk, saves, access_token, page, activities, idx, row,
                   updates, skipped, sheet, tokenCalls, storeCalls, applied, written,
                   normalized>>

\* a page request is answered with an error status: raise_for_status raises
FetchFails ==
    /\ pc = "fetch"
    /\ pageRequests' = Append(pageRequests, page)
    /\ pc' = "failed"
    /\ error' = "activities endpoint"
    /\ UNCHANGED <<env, config, disk, saves, access_token, page, activities, fetched,
                   parsed, idx, row, updates, skipped, sheet, tokenCalls, storeCalls,
                   applied, written, normalized>>

(***************************************************************************)
(* update_sheet                                                            *)
(***************************************************************************)
\* where the for loop stands after the record at position i
AfterRecord(i) == IF i < Len(parsed) THEN "find" ELSE "done"

\* open_sheet and spreadsheet.worksheet succeed
OpenSheet ==
    /\ pc = "open"
    /\ storeCalls' = Append(storeCalls, "open")
    /\ pc' = AfterRecord(0)
    /\ idx' = 1
    /\ updates' = 0
    /\ skipped' = <<>>
    /\ UNCHANGED <<env, config, disk, saves, access_token, page, activities, fetched,
                   parsed, row, sheet, tokenCalls, pageRequests, applied, written,
                   normalized, error>>

\* as FindNoRow, with an unmatched date raising instead of being collected
FindNoRowRaises ==
    /\ pc = "find"
    /\ storeCalls' = Append(storeCalls, "col_values")
    /\ LET r == find_date_row(col_values(sheet, config.sheet_mapping.date_column),
                              parsed[idx].date)
       IN  /\ r = 0
           /\ row' = r
           /\ normalized' = Scanned(col_values(sheet, config.sheet_mapping.date_column), r)
    /\ pc' = "failed"
    /\ error' = "unmatched date"
    /\ UNCHANGED <<env, config, disk, saves, access_token, page, activities, fetched,
                   parsed, idx, updates, skipped, sheet, tokenCalls, pageRequests,
                   applied, written>>

\* find_date_row for the current record: no row matches
FindNoRow ==
    /\ pc = "find"
    /\ storeCalls' = Append(storeCalls, "col_values")
    /\ LET r == find_date_row(col_values(sheet, config.sheet_mapping.date_column),
                              parsed[idx].date)
       IN  /\ r = 0
           /\ row' = r
           /\ normalized' = Scanned(col_values(sheet, config.sheet_mapping.date_column), r)
    /\ skipped' = Append(skipped, parsed[idx].date)
    /\ pc' = AfterRecord(idx)
    /\ idx' = IF idx < Len(parsed) THEN idx + 1 ELSE idx
    /\ UNCHANGED <<env, config, disk, saves, access_token, page, activities, fetched,
                   parsed, updates, sheet, tokenCalls, pageRequests, applied, written,
                   error>>

\* find_date_row for the current record: a row matches
FindRow ==
    /\ pc = "find"
    /\ storeCalls' = Append(storeCalls, "col_values")
    /\ LET r == find_date_row(col_values(sheet, config.sheet_mapping.date_column),
                              parsed[idx].date)
       IN  /\ r # 0
           /\ row' = r
           /\ normalized' = Scanned(col_values(sheet, config.sheet_mapping.date_column), r)
    /\ pc' = "write"
    /\ UNCHANGED <<env, config, disk, saves, access_token, page, activities, fetched,
                   parsed, idx, updates, skipped, sheet, tokenCalls, pageRequests,
                   applied, written, error>>

\* worksheet.update_cells for the current record
WriteCells ==
    /\ pc = "write"
    /\ storeCalls' = Append(storeCalls, "update_cells")
    /\ sheet' = update_cells(sheet, cells_to_update(config.sheet_mapping, row, parsed[idx]))
    /\ applied' = Append(applied, idx)
    /\ written' = Append(written, cells_to_update(config.sheet_mapping, row, parsed[idx]))
    /\ updates' = updates + 1
    /\ pc' = AfterRecord(idx)
    /\ idx' = IF idx < Len(parsed) THEN idx + 1 ELSE idx
    /\ UNCHANGED <<env, config, disk, saves, access_token, page, activities, fetched,
                   parsed, row, skipped, tokenCalls, pageRequests, normalized, error>>

\* as StoreFails, with the error of a read or write swallowed: the loop goes on
\* with the next record
StoreFailsSkipsRecord ==
    /\ pc \in {"open", "find", "write"}
    /\ storeCalls' = Append(storeCalls,
                            CASE pc = "open" -> "open"
                              [] pc = "find" -> "col_values"
                              [] pc = "write" -> "update_cells")
    /\ error' = "store"
    /\ IF pc = "open"
       THEN pc' = "failed" /\ idx' = idx
       ELSE /\ pc' = AfterRecord(idx)
            /\ idx' = IF idx < Len(parsed) THEN idx + 1 ELSE idx
    /\ UNCHANGED <<env, config, disk, saves, access_token, page, activities, fetched,
                   parsed, row, updates, skipped, sheet, tokenCalls, pageRequests,
                   applied, written, normalized>>

\* a call to the store raises: on opening, on a column read, or on a batch write
StoreFails ==
    /\ pc \in {"open", "find", "write"}
    /\ storeCalls' = Append(storeCalls,
                            CASE pc = "open" -> "open"
                              [] pc = "find" -> "col_values"
                              [] pc = "write" -> "update_cells")
    /\ pc' = "failed"
    /\ error' = "store"
    /\ UNCHANGED <<env, config, disk, saves, access_token, page, activities, fetched,
                   parsed, idx, row, updates, skipped, sheet, tokenCalls, pageRequests,
                   applied, written, normalized>>

Next ==
    \/ Preflight
    \/ TokenCached
    \/ TokenRefreshed
    \/ TokenRefreshFails
    \/ FetchPage
    \/ FetchLastPage
    \/ FetchFails
    \/ OpenSheet
    \/ FindNoRow
    \/ FindRow
    \/ WriteCells
    \/ StoreFails

Spec == Init /\ [][Next]_vars

(***************************************************************************)
(* fetch_activities called on its own, with any activity_type              *)
(***************************************************************************)
\* the values of the activity_type parameter; "" stands for None and for ""
ActivityTypes == {"Run", "Ride", "Walk", ""}

InitFetch ==
    \E s \in ShortLists \cup LongLists, t \in ActivityTypes :
        /\ config = InitConfig(1000, 3600, "R0", "miles", DefaultMapping)
        /\ env = [now |-> 1000, server |-> s, sa_exists |-> TRUE,
                  dry_run |-> FALSE, loaded |-> config,
                  sheet |-> SheetOf(DefaultDates, DefaultMapping),
                  activity_type |-> t, year_padded |-> FALSE]
        /\ sheet = env.sheet
        /\ disk = config
        /\ pc = "fetch"
        /\ saves = 0
        /\ access_token = config.strava.access_token
        /\ page = 1
        /\ activities = <<>>
        /\ fetched = <<>>
        /\ parsed = <<>>
        /\ idx = 0
        /\ row = 0
        /\ updates = 0
        /\ skipped = <<>>
        /\ tokenCalls = <<>>
        /\ pageRequests = <<>>
        /\ storeCalls = <<>>
        /\ applied = <<>>
        /\ written = <<>>
        /\ normalized = <<>>
        /\ error = ""

\* the last page: the loop ends, the type filter is applied and fetch_activities
\* returns to its caller
FetchReturn ==
    /\ pc = "fetch"
    /\ LET batch == PageOf(env.server, page)
       IN  /\ LastBatch(batch)
           /\ activities' = activities \o batch
           /\ fetched' = FilterType(activities \o batch, env.activity_type)
    /\ pageRequests' = Append(pageRequests, page)
    /\ pc' = "done"
    /\ UNCHANGED <<env, config, disk, saves, access_token, page, parsed, idx, row,
                   updates, skipped, sheet, tokenCalls, storeCalls, applied, written,
                   normalized, error>>

NextFetch ==
    \/ FetchPage
    \/ FetchReturn
    \/ FetchFails

SpecFetch == InitFetch /\ [][NextFetch]_vars

\* the loop is sequential code: as long as the endpoint answers, the next step
\* of fetch_activities is taken
SpecFetchFair == InitFetch /\ [][NextFetch]_vars /\ WF_vars(NextFetch)

(***************************************************************************)
(* parse_activity called on one raw activity                               *)
(***************************************************************************)
\* distances in metres and moving times in seconds of the activities parsed
Distances == {0, 1, 4, 8, 100, 1000, 1609, 5000, 10000, 21097, 42200, 100000}

MovingTimes == {0, 1, 59, 60, 61, 599, 1500, 3000, 3599, 3600, 3601, 4000,
                36000, 86399, 90061}

InitParse ==
    \E d \in Distances, t \in MovingTimes, u \in Units, yp \in BOOLEAN :
        /\ config = InitConfig(1000, 3600, "R0", u, DefaultMapping)
        /\ fetched = << [type |-> "Run", start_date_local |-> T15am, distance |-> d,
                         moving_time |-> t, name |-> NameAM] >>
        /\ env = [now |-> 1000, server |-> fetched, sa_exists |-> TRUE,
                  dry_run |-> TRUE, loaded |-> config,
                  sheet |-> SheetOf(DefaultDates, DefaultMapping),
                  activity_type |-> "Run", year_padded |-> yp]
        /\ sheet = env.sheet
        /\ disk = config
        /\ pc = "parse"
        /\ saves = 0
        /\ access_token = config.strava.access_token
        /\ page = 1
        /\ activities = fetched
        /\ parsed = <<>>
        /\ idx = 0
        /\ row = 0
        /\ updates = 0
        /\ skipped = <<>>
        /\ tokenCalls = <<>>
        /\ pageRequests = <<1>>
        /\ storeCalls = <<>>
        /\ applied = <<>>
        /\ written = <<>>
        /\ normalized = <<>>
        /\ error = ""

\* parse_activity(a, units=units) for the activity fetched
ParseActivity ==
    /\ pc = "parse"
    /\ parsed' = ParseAll(fetched, config.units)
    /\ pc' = "done"
    /\ UNCHANGED <<env, config, disk, saves, access_token, page, activities, fetched,
                   idx, row, updates, skipped, sheet, tokenCalls, pageRequests,
                   storeCalls, applied, written, normalized, error>>

NextParse == ParseActivity

SpecParse == InitParse /\ [][NextParse]_vars

(***************************************************************************)
(* find_date_row called on a date column, and normalize_date on a cell     *)
(***************************************************************************)
\* a date cell is described by the way it is written and by three numbers:
\* y, and the two numbers in the order of writing (month and day for the
\* styles that put the month first, or the year first)
Styles == {"iso", "spaced", "slash4", "slash2", "long", "short"}

Years == {999, 2023, 2024}

Firsts == {1, 2, 3, 12, 13, 31}

Seconds == {1, 3, 12, 13, 29, 30, 31}

\* the year written with four digits
Year4Text(y) == ZeroPad(IntToChars(y), 4)

\* the name of month m with a capital initial; no month has the name "Smarch"
MonthLabel(m, names) ==
    IF m \in 1..12
    THEN <<UpperAlpha[CHOOSE i \in 1..26 : LowerAlpha[i] = names[m][1]]>> \o Tail(names[m])
    ELSE <<"S", "m", "a", "r", "c", "h">>

\* what the sheet shows for a date written in the given style
WrittenDate(style, y, a, b) ==
    CASE style = "iso"    -> Year4Text(y) \o <<"-">> \o Pad2(a) \o <<"-">> \o Pad2(b)
      [] style = "spaced" -> <<" ">> \o Year4Text(y) \o <<"-">> \o Pad2(a) \o <<"-">>
                                \o Pad2(b) \o <<" ", " ">>
      [] style = "slash4" -> Pad2(a) \o <<"/">> \o Pad2(b) \o <<"/">> \o Year4Text(y)
      [] style = "slash2" -> IntToChars(a) \o <<"/">> \o IntToChars(b) \o <<"/">> \o Pad2(y % 100)
      [] style = "long"   -> MonthLabel(a, MonthNames) \o <<" ">> \o IntToChars(b)
                                \o <<",", " ">> \o Year4Text(y)
      [] style = "short"  -> MonthLabel(a, MonthAbbr) \o <<" ">> \o Pad2(b)
                                \o <<",", " ">> \o Year4Text(y)

\* cells that hold no date
OtherCells ==
    { [style |-> "other", y |-> 0, a |-> 0, b |-> 0, text |-> t] :
        t \in { CellEmpty, CellHeader, <<" ">>, <<" ", "n", "/", "a", " ">>,
                <<"2", "0", "2", "4", "0", "3", "1", "5">>,
                <<"1", "5", ".", "0", "3", ".", "2", "0", "2", "4">> } }

DateCells ==
    { [style |-> st, y |-> y, a |-> a, b |-> b, text |-> WrittenDate(st, y, a, b)] :
        st \in Styles, y \in Years, a \in Firsts, b \in Seconds }

\* the dates looked for next to a cell: the cell's numbers read month first and
\* read day first, where they are dates
DatesFor(cell) ==
    {D15} \cup {Year4Text(cell.y) \o <<"-">> \o Pad2(md[1]) \o <<"-">> \o Pad2(md[2]) :
                md \in {x \in {<<cell.a, cell.b>>, <<cell.b, cell.a>>} :
                            cell.y >= 1000 /\ ValidDate(cell.y, x[1], x[2])}}

\* the date column holds a header, the described cell and a cell after it
RowsAbove == <<CellHeader>>

\* the row of the described cell
CellRow == Len(RowsAbove) + 1

InitDates ==
    \E cell \in DateCells \cup OtherCells, yp \in BOOLEAN :
      \E date \in DatesFor(cell) :
        /\ config = InitConfig(1000, 3600, "R0", "miles", DefaultMapping)
        /\ env = [now |-> 1000, server |-> <<>>, sa_exists |-> TRUE,
                  dry_run |-> FALSE, loaded |-> config,
                  sheet |-> SheetOf(RowsAbove \o <<cell.text, CellIso15>>,
                                    DefaultMapping),
                  activity_type |-> "Run", year_padded |-> yp,
                  cell |-> cell, date_str |-> date]
        /\ sheet = env.sheet
        /\ disk = config
        /\ pc = "find"
        /\ saves = 0
        /\ access_token = config.strava.access_token
        /\ page = 1
        /\ activities = <<>>
        /\ fetched = <<>>
        /\ parsed = <<>>
        /\ idx = 1
        /\ row = 0
        /\ updates = 0
        /\ skipped = <<>>
        /\ tokenCalls = <<>>
        /\ pageRequests = <<1>>
        /\ storeCalls = <<"open">>
        /\ applied = <<>>
        /\ written = <<>>
        /\ normalized = <<>>
        /\ error = ""

\* find_date_row(worksheet, date_str, date_col)
FindDateRow ==
    /\ pc = "find"
    /\ storeCalls' = Append(storeCalls, "col_values")
    /\ row' = find_date_row(col_values(sheet, config.sheet_mapping.date_column),
                            env.date_str)
    /\ normalized' = Scanned(col_values(sheet, config.sheet_mapping.date_column), row')
    /\ pc' = "found"
    /\ UNCHANGED <<env, config, disk, saves, access_token, page, activities, fetched,
                   parsed, idx, updates, skipped, sheet, tokenCalls, pageRequests,
                   applied, written, error>>

\* normalize_date applied to each string it has returned; the values it
\* returns now follow those it returned first
NormalizeAgain ==
    /\ pc = "found"
    /\ normalized' = normalized \o
                        [i \in 1..Len(normalized) |->
                            IF normalized[i] = None THEN None
                            ELSE normalize_date(normalized[i][1])]
    /\ pc' = "done"
    /\ UNCHANGED <<env, config, disk, saves, access_token, page, activities, fetched,
                   parsed, idx, row, updates, skipped, sheet, tokenCalls, pageRequests,
                   storeCalls, applied, written, error>>

NextDates ==
    \/ FindDateRow
    \/ NormalizeAgain

SpecDates == InitDates /\ [][NextDates]_vars

(***************************************************************************)
(* Properties                                                              *)
(***************************************************************************)
\* ensure_strava_token has returned a token to main()
TokenReturned == access_token # NoToken

\* token_expires_at - now <= 60 when the run starts
NearExpiry == env.loaded.strava.token_expires_at - env.now <= 60

\* C1: whenever ensure_strava_token has returned an access token, the
\* credential's token_expires_at is greater than now + 60, whatever expires_at
\* the token endpoint answered.
C1_FreshWhenReturned ==
    TokenReturned => config.strava.token_expires_at > env.now + 60

\* C2: a token request is made if and only if token_expires_at - now <= 60:
\* with more than 60 seconds left the cached token is returned with no request,
\* no change of the credential and no write of config.json; otherwise exactly
\* one request is made before the token is returned.
C2_RefreshIffNearExpiry ==
    /\ Len(tokenCalls) <= 1
    /\ tokenCalls # <<>> => NearExpiry
    /\ pc \notin {"main", "token", "exit"} => (NearExpiry <=> Len(tokenCalls) = 1)
    /\ TokenReturned /\ ~NearExpiry =>
          /\ access_token = env.loaded.strava.access_token
          /\ config = env.loaded
          /\ disk = env.loaded
          /\ saves = 0

\* a refresh at the boundary: exactly 60 seconds left, one request, token returned
C2_Witness ==
    /\ TokenReturned
    /\ env.loaded.strava.token_expires_at - env.now = 60
    /\ Len(tokenCalls) = 1

\* C3: after a successful refresh the access token, the refresh token and the
\* expiry in memory are the values of the response, and config.json equals the
\* config in memory from the moment the token is returned, so before any
\* request to the activities endpoint.
C3_RefreshStoredAndPersisted ==
    \A i \in 1..Len(tokenCalls) :
        tokenCalls[i].response # <<>> =>
            LET tokens == tokenCalls[i].response[1]
            IN  /\ TokenReturned
                /\ access_token = tokens.access_token
                /\ config.strava.access_token = tokens.access_token
                /\ config.strava.refresh_token = tokens.refresh_token
                /\ config.strava.token_expires_at = tokens.expires_at
                /\ disk = config
                /\ saves = 1

\* the token has just been returned after a refresh; nothing has been fetched
C3_Witness ==
    /\ pc = "fetch"
    /\ pageRequests = <<>>
    /\ tokenCalls # <<>>
    /\ tokenCalls[1].response # <<>>
    /\ disk.strava.refresh_token = "R1"
    /\ disk # env.loaded

\* C4: when the token endpoint answers the refresh with an error status the run
\* is over: the request was made once, the credential in memory and config.json
\* are as loaded, and no activities request and no store call has been made.
C4_RefreshFailureIsFatal ==
    (\E i \in 1..Len(tokenCalls) : tokenCalls[i].response = <<>>) =>
        /\ pc = "failed"
        /\ error = "token endpoint"
        /\ Len(tokenCalls) = 1
        /\ ~TokenReturned
        /\ config = env.loaded
        /\ disk = env.loaded
        /\ saves = 0
        /\ pageRequests = <<>>
        /\ storeCalls = <<>>

\* the refresh request has been answered with an error status
C4_Witness ==
    /\ pc = "failed"
    /\ tokenCalls # <<>>
    /\ tokenCalls[1].response = <<>>

\* fetch_activities has returned to main()
FetchReturned == pc \in {"done", "open", "find", "write"} \/ error = "store"

\* C5: when the endpoint has k full pages followed by a shorter one (possibly
\* empty), pages 1..k+1 are requested, each once and in increasing order, and
\* nothing after the short page; k * 50 + (length of the short page) raw
\* activities are collected.
C5_PagesRequested ==
    LET n == Len(env.server)
        k == n \div per_page
    IN  /\ \A i \in 1..Len(pageRequests) : pageRequests[i] = i
        /\ Len(pageRequests) <= k + 1
        /\ FetchReturned =>
              /\ Len(pageRequests) = k + 1
              /\ Len(activities) = k * per_page + (n % per_page)
              /\ activities = env.server

\* two full pages and a page of one activity have been fetched
C5_Witness ==
    /\ FetchReturned
    /\ pageRequests = <<1, 2, 3>>
    /\ Len(activities) = 2 * per_page + 1

\* C6: when a page request is answered with an error status the run is over:
\* every page, the failed one included, was requested once, what the earlier
\* pages brought is not handed to main(), and no store call has been made.
C6_FetchFailureIsFatal ==
    error = "activities endpoint" =>
        /\ pc = "failed"
        /\ \A i \in 1..Len(pageRequests) : pageRequests[i] = i
        /\ Len(activities) = (Len(pageRequests) - 1) * per_page
        /\ fetched = <<>>
        /\ parsed = <<>>
        /\ storeCalls = <<>>
        /\ applied = <<>>
        /\ sheet = env.sheet

\* the request for page 2 failed after page 1 had brought 50 activities
C6_Witness ==
    /\ error = "activities endpoint"
    /\ pageRequests = <<1, 2>>
    /\ Len(activities) = per_page

\* the normalized date of row r of the worksheet as it was before the run
NormalizedBefore(r) ==
    normalize_date(CellText(env.sheet[r][config.sheet_mapping.date_column]))

\* the lowest row whose normalized date is the given date, 0 if there is none
FirstMatch(date) ==
    LET rows == {r \in 1..Len(env.sheet) : NormalizedBefore(r) = <<date>>}
    IN  IF rows = {} THEN 0 ELSE CHOOSE r \in rows : \A q \in rows : r <= q

\* C7: the row chosen for a record is the lowest row whose normalized date cell
\* equals the record's date, and a row that has the same normalized date as a
\* row above it is never written.
C7_FirstRowOnly ==
    /\ pc = "write" =>
          /\ row \in 1..Len(sheet)
          /\ row = FirstMatch(parsed[idx].date)
    /\ \A r2 \in 1..Len(sheet) :
          \/ sheet[r2] = env.sheet[r2]
          \/ \A r1 \in 1..(r2 - 1) : NormalizedBefore(r1) # NormalizedBefore(r2)

\* two rows hold the same date in different formats, two records of that date
\* have been written, and the first of the rows has changed
C7_Witness ==
    /\ Len(sheet) >= 2
    /\ env.sheet[1] # env.sheet[2]
    /\ NormalizedBefore(1) = NormalizedBefore(2)
    /\ Len(applied) = 2
    /\ sheet[1] # env.sheet[1]

\* update_sheet has returned to main()
UpdateSheetReturned == pc = "done" /\ storeCalls # <<>>

\* the position of the last record that has the date of the record at i
LastOfDate(i) ==
    CHOOSE j \in 1..Len(parsed) :
        /\ parsed[j].date = parsed[i].date
        /\ \A l \in (j + 1)..Len(parsed) : parsed[l].date # parsed[i].date

\* C8: when several records share a date, after update_sheet the matched row
\* holds in every configured column (distance, pace, duration, notes) the
\* values of the last of them.
C8_LastSameDateWins ==
    UpdateSheetReturned =>
        \A i \in 1..Len(parsed) :
            LET r    == FirstMatch(parsed[i].date)
                last == parsed[LastOfDate(i)]
                m    == config.sheet_mapping
            IN  r # 0 /\ LastOfDate(i) # i =>
                    /\ sheet[r][m.distance_column] = Num(last.distance)
                    /\ sheet[r][m.pace_column] = Str(last.pace)
                    /\ m.duration_column # 0 => sheet[r][m.duration_column] = Str(last.duration)
                    /\ m.notes_column # 0 => sheet[r][m.notes_column] = Str(last.name)

\* C9 as claimed: when a store failure aborts update_sheet, no cell write of
\* the run has been applied to the store.
C9_NoWriteOnStoreFailure ==
    error = "store" => applied = <<>> /\ sheet = env.sheet

\* the positions up to i of the records whose date has a row
MatchedUpTo(i) ==
    SelectSeq([j \in 1..i |-> j], LAMBDA j : FirstMatch(parsed[j].date) # 0)

RECURSIVE Replay(_, _)
\* the worksheet after the batch writes of the records at the given positions
Replay(ws, positions) ==
    IF Len(positions) = 0 THEN ws
    ELSE Replay(update_cells(ws, cells_to_update(config.sheet_mapping,
                                                 FirstMatch(parsed[positions[1]].date),
                                                 parsed[positions[1]])),
                Tail(positions))

\* C9 as amended: when a store failure aborts update_sheet, no cell write has
\* been applied for the record being processed or for a later one, and the
\* batch writes of the matched records before it are all applied; a failure on
\* opening the sheet leaves the store as it was.
C9_OnlyEarlierWritesOnStoreFailure ==
    error = "store" =>
        /\ pc = "failed"
        /\ applied = MatchedUpTo(idx - 1)
        /\ sheet = Replay(env.sheet, applied)
        /\ storeCalls = <<"open">> => applied = <<>> /\ sheet = env.sheet

\* the store failed after the batch write of an earlier record
C9_Witness ==
    /\ error = "store"
    /\ applied # <<>>
    /\ sheet # env.sheet

\* the dates of the records that have no row, in the order of the records
UnmatchedDates ==
    SelectSeq([j \in 1..Len(parsed) |-> parsed[j].date], LAMBDA d : FirstMatch(d) = 0)

\* C10: an unmatched date never ends update_sheet: it is appended to the
\* unmatched list and the loop goes on. Every record processed has caused
\* either one batch write or one entry of the list, so when update_sheet returns
\* updates + len(skipped) is the number of records, and the list is in input
\* order.
C10_UnmatchedIsSoft ==
    /\ pc \in {"find", "write"} =>
          /\ Len(applied) + Len(skipped) = idx - 1
          /\ updates = Len(applied)
    /\ pc = "failed" /\ storeCalls # <<>> => error = "store"
    /\ UpdateSheetReturned =>
          /\ error = ""
          /\ updates + Len(skipped) = Len(parsed)
          /\ updates = Len(SelectSeq(storeCalls, LAMBDA c : c = "update_cells"))
          /\ updates = Len(applied)
          /\ skipped = UnmatchedDates

\* update_sheet returned after an unmatched record followed by a matched one
C10_Witness ==
    /\ UpdateSheetReturned
    /\ Len(skipped) = 1
    /\ applied = <<2>>

\* the columns the mapping configures for distance, pace, duration and notes
FieldColumns ==
    {config.sheet_mapping.distance_column, config.sheet_mapping.pace_column,
     config.sheet_mapping.duration_column, config.sheet_mapping.notes_column} \ {0}

\* the number of update_cells calls made so far
BatchWriteCalls == Len(SelectSeq(storeCalls, LAMBDA c : c = "update_cells"))

\* C11: every matched record causes exactly one batch write; a batch holds
\* only cells of the matched row, in the distance and pace columns and in the
\* duration and notes columns where they are configured, no column twice; every
\* cell of the worksheet outside the batches, the date column included, is as
\* it was before the run.
C11_OneBatchOnlyMappedCells ==
    /\ Len(written) = Len(applied)
    /\ pc \in {"find", "write"} =>
          /\ applied = MatchedUpTo(idx - 1)
          /\ BatchWriteCalls = Len(written)
    /\ UpdateSheetReturned =>
          /\ applied = MatchedUpTo(Len(parsed))
          /\ BatchWriteCalls = Len(written)
    /\ \A i \in 1..Len(written) :
          /\ \A k \in 1..Len(written[i]) :
                /\ written[i][k][1] = FirstMatch(parsed[applied[i]].date)
                /\ written[i][k][2] \in FieldColumns
                /\ \A l \in 1..Len(written[i]) :
                      written[i][l][2] = written[i][k][2] => l = k
          /\ \E k \in 1..Len(written[i]) :
                written[i][k][2] = config.sheet_mapping.distance_column
          /\ \E k \in 1..Len(written[i]) :
                written[i][k][2] = config.sheet_mapping.pace_column
    /\ Len(sheet) = Len(env.sheet)
    /\ \A r \in 1..Len(sheet) : \A c \in 1..NumCols :
          \/ sheet[r][c] = env.sheet[r][c]
          \/ /\ c \in FieldColumns
             /\ c # config.sheet_mapping.date_column
             /\ \E i \in 1..Len(written) : \E k \in 1..Len(written[i]) :
                   written[i][k][1] = r /\ written[i][k][2] = c

\* update_sheet returned after a batch write under a mapping without duration
\* and notes columns: the date cell was not in canonical form and has stayed so,
\* and the cells right of the pace column are as before
C11_Witness ==
    /\ UpdateSheetReturned
    /\ config.sheet_mapping.duration_column = 0
    /\ config.sheet_mapping.notes_column = 0
    /\ Len(written) >= 1
    /\ written[1][1][1] = 1
    /\ sheet[1][1] = Str(CellSlash15)
    /\ sheet[1][2] # env.sheet[1][2]
    /\ sheet[1][4] = env.sheet[1][4]

\* C12: when fetch_activities returns no activity (none on the server, or none
\* left by the type filter), main() returns without error and without any call
\* to the store: the sheet is not opened, no column is read, no write is
\* attempted, and the worksheet is as it was.
C12_EmptyFetchTouchesNothing ==
    FetchReturned /\ fetched = <<>> =>
        /\ pc = "done"
        /\ error = ""
        /\ storeCalls = <<>>
        /\ parsed = <<>>
        /\ written = <<>>
        /\ updates = 0
        /\ skipped = <<>>
        /\ sheet = env.sheet

\* the server held activities, none of them a run, and main() has returned
C12_Witness ==
    /\ pc = "done"
    /\ ~env.dry_run
    /\ Len(activities) > 0
    /\ fetched = <<>>
    /\ pageRequests # <<>>

\* the positions of the retrieved activities that the filter keeps
Kept ==
    {i \in 1..Len(activities) :
        env.activity_type = "" \/ activities[i].type = env.activity_type}

\* the j-th position of Kept, counted from the lowest
KeptAt(j) == CHOOSE i \in Kept : Cardinality({k \in Kept : k <= i}) = j

\* C13: while pages are being retrieved nothing is filtered: the list holds
\* every activity of the pages read so far. The pages requested are those the
\* length of the server's list determines, whatever the filter. What
\* fetch_activities returns is, in retrieval order, every retrieved activity
\* whose type equals the filter, and every retrieved activity when the filter
\* is empty.
C13_FilterAfterRetrieval ==
    /\ \A i \in 1..Len(pageRequests) : pageRequests[i] = i
    /\ pc = "fetch" =>
          /\ fetched = <<>>
          /\ activities = SubSeq(env.server, 1, (page - 1) * per_page)
    /\ FetchReturned =>
          /\ activities = env.server
          /\ Len(pageRequests) = (Len(env.server) \div per_page) + 1
          /\ Len(fetched) = Cardinality(Kept)
          /\ \A j \in 1..Len(fetched) : fetched[j] = activities[KeptAt(j)]
          /\ env.activity_type = "" => fetched = activities

\* two pages of runs and rides were retrieved with an empty filter and all of
\* them were returned
C13_Witness ==
    /\ FetchReturned
    /\ env.activity_type = ""
    /\ pageRequests = <<1, 2>>
    /\ Len(fetched) > per_page
    /\ \E i, j \in 1..Len(fetched) : fetched[i].type = "Run" /\ fetched[j].type = "Ride"

\* the label M:SS of a whole number of seconds
MinSecLabel(seconds) ==
    IntToChars(seconds \div 60) \o <<":">> \o Pad2(seconds % 60)

\* the pace label computed from the rounded distance of the record, given in
\* hundredths of a unit: moving_time / (hundredths / 100), truncated
PaceFromRounded(hundredths, moving_time_s) ==
    IF hundredths = 0 THEN NA
    ELSE MinSecLabel((100 * moving_time_s) \div hundredths)

\* C14: the pace label of a record is computed from its distance value, the
\* distance rounded to 2 decimals: "N/A" exactly when that value is zero, and
\* otherwise moving_time divided by that value, truncated to M:SS.
C14_PaceFromRoundedDistance ==
    \A i \in 1..Len(parsed) :
        parsed[i].pace = PaceFromRounded(parsed[i].distance, fetched[i].moving_time)

\* a number printed without sign and without padding
PlainNumber(f) == Len(f) >= 1 /\ AllDigits(f) /\ (Len(f) > 1 => f[1] # "0")

\* a two-digit field holding a value of 0..59
TwoDigitSixtieth(f) == Len(f) = 2 /\ AllDigits(f) /\ ToInt(f) \in 0..59

\* the fields of a pace label are minutes and two-digit seconds
PaceFieldsOK(f) == Len(f) = 2 /\ PlainNumber(f[1]) /\ TwoDigitSixtieth(f[2])

\* C15: for a distance of 0 the pace label is "N/A"; for a positive distance
\* and a positive moving time, in either unit, the label is M:SS with M a
\* non-negative number and SS two digits in 00..59.
C15_PaceWellFormed ==
    \A i \in 1..Len(parsed) :
        /\ fetched[i].distance = 0 => parsed[i].pace = NA
        /\ fetched[i].distance > 0 /\ fetched[i].moving_time > 0 =>
              PaceFieldsOK(Split(parsed[i].pace, ":"))

\* a very slow activity has been parsed: one metre in more than a day, the
\* minutes of the pace run to seven digits
C15_Witness ==
    /\ pc = "done"
    /\ Len(parsed) = 1
    /\ fetched[1].distance = 1
    /\ fetched[1].moving_time = 90061
    /\ Len(parsed[1].pace) >= 10

\* the fields of the duration label of a moving time of t seconds
DurationFieldsOK(f, t) ==
    IF t < 3600
    THEN /\ Len(f) = 2
         /\ PlainNumber(f[1])
         /\ TwoDigitSixtieth(f[2])
         /\ ToInt(f[1]) * 60 + ToInt(f[2]) = t
    ELSE /\ Len(f) = 3
         /\ PlainNumber(f[1])
         /\ ToInt(f[1]) >= 1
         /\ TwoDigitSixtieth(f[2])
         /\ TwoDigitSixtieth(f[3])
         /\ ToInt(f[1]) * 3600 + ToInt(f[2]) * 60 + ToInt(f[3]) = t

CanonicalCell ==
    env.cell.style = "iso" /\ ValidDate(env.cell.y, env.cell.a, env.cell.b)

\* the year a year of two digits stands for: 00..68 are 2000..2068, 69..99 are
\* 1969..1999
CenturyYear(yy) == IF yy <= 68 THEN 2000 + yy ELSE 1900 + yy

\* the date the described cell is read as: <<y, m, d>>, or <<>> when it is not
\* a date in any accepted way of writing. The year of two digits is of the
\* century that %y gives it.
ReadAs(cell) ==
    CASE cell.style \in {"iso", "spaced", "long", "short"} ->
            IF ValidDate(cell.y, cell.a, cell.b) THEN <<cell.y, cell.a, cell.b>> ELSE <<>>
      [] cell.style = "slash4" ->
            IF ValidDate(cell.y, cell.a, cell.b) THEN <<cell.y, cell.a, cell.b>>
            ELSE IF ValidDate(cell.y, cell.b, cell.a) THEN <<cell.y, cell.b, cell.a>>
            ELSE <<>>
      [] cell.style = "slash2" ->
            IF ValidDate(CenturyYear(cell.y % 100), cell.a, cell.b)
            THEN <<CenturyYear(cell.y % 100), cell.a, cell.b>>
            ELSE <<>>
      [] OTHER -> <<>>

\* C17: normalize_date returns a valid date written as YYYY-MM-DD unchanged,
\* and for every cell that is read as a date, normalizing the value returned
\* gives that value again.
C17_CanonicalIsFixedPoint ==
    /\ pc \in {"found", "done"} /\ CanonicalCell =>
          normalized[CellRow] = <<env.cell.text>>
    /\ pc = "done" /\ ReadAs(env.cell) # <<>> =>
          normalized[(Len(normalized) \div 2) + CellRow] = normalized[CellRow]

\* the canonical text of a date <<y, m, d>>
CanonicalOf(dt) == Strftime(dt[1], dt[2], dt[3])

\* the described cell is a slash date that is a date both when read month
\* first and when read day first, and not the same date
AmbiguousCell ==
    /\ env.cell.style = "slash4"
    /\ env.cell.a # env.cell.b
    /\ ValidDate(env.cell.y, env.cell.a, env.cell.b)
    /\ ValidDate(env.cell.y, env.cell.b, env.cell.a)

\* C18: a cell written in one of the accepted ways is normalized to the date
\* of the first way, in the order ISO, month-first slash with a year of four
\* digits, month-first slash with a year of two digits, day-first slash, long
\* month name, short month name, under which it is a date. A slash date that
\* is a date under both readings is read month first; the day-first reading
\* is taken only when the month-first readings give no date. So find_date_row
\* returns the row of such a cell for the month-first date only.
C18_MonthFirstBeforeDayFirst ==
    pc \in {"found", "done"} =>
        /\ ReadAs(env.cell) # <<>> =>
              normalized[CellRow] = <<CanonicalOf(ReadAs(env.cell))>>
        /\ AmbiguousCell =>
              /\ normalized[CellRow] =
                    <<CanonicalOf(<<env.cell.y, env.cell.a, env.cell.b>>)>>
              /\ row = CellRow <=>
                    env.date_str = CanonicalOf(<<env.cell.y, env.cell.a, env.cell.b>>)
              /\ env.date_str = CanonicalOf(<<env.cell.y, env.cell.b, env.cell.a>>) =>
                    row # CellRow
        /\ env.cell.style = "slash4" /\ env.cell.a > 12 /\ ReadAs(env.cell) # <<>> =>
              /\ normalized[CellRow] =
                    <<CanonicalOf(<<env.cell.y, env.cell.b, env.cell.a>>)>>
              /\ row = CellRow <=>
                    env.date_str = CanonicalOf(<<env.cell.y, env.cell.b, env.cell.a>>)
        /\ row = CellRow =>
              /\ ReadAs(env.cell) # <<>>
              /\ env.date_str = CanonicalOf(ReadAs(env.cell))

\* the cell 03/12/2024 was looked up for 3 December 2024: it was normalized to
\* 12 March 2024 and no row was found
C18_Witness ==
    /\ pc = "found"
    /\ env.cell.text = <<"0", "3", "/", "1", "2", "/", "2", "0", "2", "4">>
    /\ env.date_str = <<"2", "0", "2", "4", "-", "1", "2", "-", "0", "3">>
    /\ normalized[CellRow] = << <<"2", "0", "2", "4", "-", "0", "3", "-", "1", "2">> >>
    /\ row = 0

\* the text of the date cell of row r before the run
DateTextBefore(r) == CellText(env.sheet[r][config.sheet_mapping.date_column])

\* the cells of the runs modelled that hold no date
UnreadableTexts == {CellEmpty, CellHeader, CellPadded, CellBlank}

\* what normalize_date is to return for a cell that holds no date: nothing for
\* the empty cell, otherwise the text without the white space around it
TrimmedOriginal(text) ==
    CASE text = CellEmpty  -> None
      [] text = CellHeader -> <<CellHeader>>
      [] text = CellPadded -> << <<"n", "/", "a">> >>
      [] text = CellBlank  -> << <<>> >>

\* C19: a date cell that is empty or holds no date in an accepted way of
\* writing is normalized to its trimmed text (nothing for the empty cell), is
\* never the row found for a record and is never written; the scan goes on
\* behind it, so a record is reported unmatched only when no row of the whole
\* column holds its date, and the run does not fail for such a cell.
C19_UnreadableCellIsPassedOver ==
    /\ \A r \in 1..Len(env.sheet) :
          DateTextBefore(r) \in UnreadableTexts =>
              /\ sheet[r] = env.sheet[r]
              /\ pc = "write" => row # r
              /\ r <= Len(normalized) => normalized[r] = TrimmedOriginal(DateTextBefore(r))
    /\ row # 0 => Len(normalized) = row
    /\ row = 0 /\ skipped # <<>> => Len(normalized) = Len(sheet)
    /\ \A i \in 1..Len(skipped) : FirstMatch(skipped[i]) = 0
    /\ pc = "failed" /\ storeCalls # <<>> => error = "store"

\* the column holds a padded text, an empty cell and a date: the scan went past
\* the first two and the row of the date was written
C19_Witness ==
    /\ UpdateSheetReturned
    /\ Len(sheet) = 3
    /\ DateTextBefore(1) = CellPadded
    /\ DateTextBefore(2) = CellEmpty
    /\ normalized = << << <<"n", "/", "a">> >>, None, <<D15>> >>
    /\ sheet[1] = env.sheet[1]
    /\ sheet[2] = env.sheet[2]
    /\ sheet[3] # env.sheet[3]

\* the page the endpoint gives for the request the loop is about to make
NextBatch == PageOf(env.server, page)

\* C20: the loop of fetch_activities is left only by a failed request or after
\* a page of fewer than 50 items (an empty page included); after a page of
\* exactly 50 items the next page is requested; and as the endpoint comes to a
\* short page, an empty page or a failure, the loop ends.
C20_LoopEndsOnlyOnShortPageOrFailure ==
    /\ [][pc = "fetch" /\ pc' # "fetch" =>
            \/ error' = "activities endpoint"
            \/ Len(NextBatch) < per_page]_vars
    /\ [][pc = "fetch" /\ Len(NextBatch) = per_page /\ pageRequests' # pageRequests =>
            \/ error' = "activities endpoint"
            \/ /\ pc' = "fetch"
               /\ page' = page + 1
               /\ pageRequests' = Append(pageRequests, page)]_vars
    /\ (pc = "fetch") ~> (pc # "fetch")

\* two pages of exactly 50 items were followed by a request for a third page,
\* which was empty and ended the loop
C20_Witness ==
    /\ pc = "done"
    /\ Len(env.server) = 2 * per_page
    /\ pageRequests = <<1, 2, 3>>
    /\ activities = env.server

====
